---- MODULE Spec2Model ----
(***************************************************************************)
(* A model of satelite/earthview.py: the subset descriptor table and its   *)
(* lookups, load_dataset's shard paths, and item_to_images (Spec), and of  *)
(* satelite/download_images.py: shard loading, the fallback to the default *)
(* shard and the sampling loop (DownloadSpec).                             *)
(*                                                                         *)
(* Python values are tagged records [t, v].  A str is modelled as the      *)
(* sequence of JSON lexemes of its text, so that json.loads is a parser    *)
(* that can fail and whose result differs from its argument.  A dict is a  *)
(* function over the key universe with Absent for the keys it lacks.       *)
(***************************************************************************)
EXTENDS Integers, Sequences, FiniteSets, TLC

\* ------------------------------------------------------------------ bounds
MaxRevisits == 2
MaxSide     == 2
MaxShard    == 12
MaxCalls    == 2
MaxImages   == 10
MaxShardSize == 8

\* ----------------------------------------------------------- Python values
Absent      == [t |-> "absent", v |-> 0]
PyNone      == [t |-> "none", v |-> 0]
PyInt(n)    == [t |-> "int", v |-> n]
PyStr(text) == [t |-> "str", v |-> text]
PyList(s)   == [t |-> "list", v |-> s]
PyDict(f)   == [t |-> "dict", v |-> f]

\* The keys a metadata mapping of the model may hold.
Keys == {"bounds", "epsg", "count", "solarAngles", "tileGeometry",
         "viewIncidenceAngles", "zenith"}

EmptyMap == [k \in Keys |-> Absent]

\* An exception: its type, and the key it carries (KeyError's argument or
\* UnboundLocalError's variable; "none" for the exceptions that carry no name).
Raise(type, key) == [ok |-> FALSE, err |-> type, key |-> key, val |-> PyNone]
Return(val)      == [ok |-> TRUE, err |-> "", key |-> "", val |-> val]

\* ------------------------------------------------------------ JSON lexemes
\* Punctuation, a number, a bare word (null, or the letters of a string's
\* content), and a quoted string with the lexemes of its content.
Punct(c)        == [t |-> "punct", v |-> c]
Num(n)          == [t |-> "num", v |-> n]
Word(w)         == [t |-> "word", v |-> w]
Quoted(content) == [t |-> "quoted", v |-> content]

IsPunct(text, i, c) == i <= Len(text) /\ text[i].t = "punct" /\ text[i].v = c

RECURSIVE ParseValue(_, _)
RECURSIVE ParseElems(_, _, _)
RECURSIVE ParseMembers(_, _, _)

ParseFail == [ok |-> FALSE, val |-> PyNone, next |-> 0]
Parsed(val, next) == [ok |-> TRUE, val |-> val, next |-> next]

\* One JSON value starting at lexeme i.
ParseValue(text, i) ==
    IF i > Len(text) THEN ParseFail
    ELSE LET x == text[i] IN
         CASE x.t = "num"    -> Parsed(PyInt(x.v), i + 1)
           [] x.t = "quoted" -> Parsed(PyStr(x.v), i + 1)
           [] x.t = "word"   -> IF x.v = "null" THEN Parsed(PyNone, i + 1)
                                ELSE ParseFail
           [] x.t = "punct"  ->
                IF x.v = "[" THEN
                    IF IsPunct(text, i + 1, "]") THEN Parsed(PyList(<<>>), i + 2)
                    ELSE ParseElems(text, i + 1, <<>>)
                ELSE IF x.v = "{" THEN
                    IF IsPunct(text, i + 1, "}") THEN Parsed(PyDict(EmptyMap), i + 2)
                    ELSE ParseMembers(text, i + 1, EmptyMap)
                ELSE ParseFail
           [] OTHER -> ParseFail

\* The elements of an array after "[" or ",", up to and including "]".
ParseElems(text, i, acc) ==
    LET e == ParseValue(text, i) IN
    IF ~e.ok THEN ParseFail
    ELSE IF IsPunct(text, e.next, ",") THEN ParseElems(text, e.next + 1, Append(acc, e.val))
    ELSE IF IsPunct(text, e.next, "]") THEN Parsed(PyList(Append(acc, e.val)), e.next + 1)
    ELSE ParseFail

\* The members of an object after "{" or ",", up to and including "}".
\* A repeated key keeps its last value.  The texts of the model name keys of
\* Keys only.
ParseMembers(text, i, acc) ==
    IF ~(i <= Len(text) /\ text[i].t = "quoted" /\ Len(text[i].v) = 1
           /\ text[i].v[1].t = "word" /\ text[i].v[1].v \in Keys
           /\ IsPunct(text, i + 1, ":"))
    THEN ParseFail
    ELSE LET key == text[i].v[1].v
             e   == ParseValue(text, i + 2)
         IN IF ~e.ok THEN ParseFail
            ELSE LET acc2 == [acc EXCEPT ![key] = e.val] IN
                 IF IsPunct(text, e.next, ",") THEN ParseMembers(text, e.next + 1, acc2)
                 ELSE IF IsPunct(text, e.next, "}") THEN Parsed(PyDict(acc2), e.next + 1)
                 ELSE ParseFail

\* json.loads(s): the value of the whole text, JSONDecodeError when the text is
\* not one JSON value, TypeError when s is not a str.
JsonLoads(s) ==
    IF s.t # "str" THEN Raise("TypeError", "none")
    ELSE LET p == ParseValue(s.v, 1) IN
         IF p.ok /\ p.next = Len(s.v) + 1 THEN Return(p.val)
         ELSE Raise("JSONDecodeError", "none")

\* ------------------------------------------------------------------ arrays
\* A raster field as the dataset delivers it: nested lists of integers, d deep.
\* (The payload of an array value is the pair of its depth or shape and its
\* elements, so that two arrays of different ranks compare unequal.)
Nested(v, d) == [t |-> "nested", v |-> <<d, v>>]
\* A numpy array of uint8 (or, inside a computation, of float64 held as the
\* integers the model needs) with its shape.
NdArray(v, shape) == [t |-> "ndarray", v |-> <<shape, v>>]
Shape(a) == a.v[1]
Data(a)  == a.v[2]
\* A PIL image: rows of pixels, each pixel the sequence of its bands.
Image(mode, size, v) == [t |-> "image", v |-> v, mode |-> mode, size |-> size]

RECURSIVE ShapeOf(_, _)
\* The shape numpy finds for nested lists d deep: ok is FALSE when the lists
\* are ragged (sublists of different shapes).
ShapeOf(v, d) ==
    IF d = 0 THEN [ok |-> TRUE, shape |-> <<>>]
    ELSE IF Len(v) = 0 THEN [ok |-> TRUE, shape |-> <<0>>]
    ELSE LET first == ShapeOf(v[1], d - 1) IN
         IF first.ok /\ \A i \in 2..Len(v) : ShapeOf(v[i], d - 1) = first
         THEN [ok |-> TRUE, shape |-> <<Len(v)>> \o first.shape]
         ELSE [ok |-> FALSE, shape |-> <<>>]

\* astype("uint8") of an integer: the value modulo 2^8.
Uint8(n) == n % 256

RECURSIVE Uint8Leaves(_, _)
Uint8Leaves(v, d) ==
    IF d = 0 THEN Uint8(v) ELSE [i \in 1..Len(v) |-> Uint8Leaves(v[i], d - 1)]

\* np.asarray(v).astype("uint8") (line 91).
AsUint8Array(field) ==
    IF field.t = "ndarray" THEN Return(field)
    ELSE IF field.t # "nested" THEN Raise("ValueError", "none")
    ELSE LET s == ShapeOf(field.v[2], field.v[1]) IN
         IF ~s.ok THEN Raise("ValueError", "none")
         ELSE Return(NdArray(Uint8Leaves(field.v[2], field.v[1]), s.shape))

Ndim(a) == Len(Shape(a))
\* The sub-array a[i] (1-based in the model), as the loop over a yields it.
Sub(a, i) == NdArray(Data(a)[i], Tail(Shape(a)))

\* image.transpose(1,2,0): [C,H,W] to [H,W,C].
TransposeCHW(a) ==
    IF Ndim(a) # 3 THEN Raise("ValueError", "none")
    ELSE Return(NdArray(
            [y \in 1..Shape(a)[2] |-> [x \in 1..Shape(a)[3] |->
                [c \in 1..Shape(a)[1] |-> Data(a)[c][y][x]]]],
            <<Shape(a)[2], Shape(a)[3], Shape(a)[1]>>))

\* image[0,:,:] (lines 110) on one revisit.
FirstChannel(a) ==
    IF Ndim(a) < 3 \/ Shape(a)[1] = 0 THEN Raise("IndexError", "none")
    ELSE Return(Sub(a, 1))

\* image[0] (line 150) on one revisit.
FirstPlane(a) ==
    IF Ndim(a) < 1 \/ Shape(a)[1] = 0 THEN Raise("IndexError", "none")
    ELSE Return(Sub(a, 1))

ModeOfBands(c) == CASE c = 2 -> "LA" [] c = 3 -> "RGB" [] c = 4 -> "RGBA" [] OTHER -> "none"

\* Image.fromarray(a) with no mode: the mode follows from the shape.
FromArray(a) ==
    CASE Ndim(a) = 1 ->
            Return(Image("L", <<1, Shape(a)[1]>>, [y \in 1..Shape(a)[1] |-> << <<Data(a)[y]>> >>]))
      [] Ndim(a) = 2 ->
            Return(Image("L", <<Shape(a)[2], Shape(a)[1]>>,
                         [y \in 1..Shape(a)[1] |-> [x \in 1..Shape(a)[2] |-> <<Data(a)[y][x]>>]]))
      [] Ndim(a) = 3 /\ Shape(a)[3] \in {2, 3, 4} ->
            Return(Image(ModeOfBands(Shape(a)[3]), <<Shape(a)[2], Shape(a)[1]>>, Data(a)))
      [] OTHER -> Raise("TypeError", "none")

RECURSIVE Flatten(_, _)
\* The elements of an array in C order (tobytes).
Flatten(v, d) ==
    IF d = 0 THEN <<v>>
    ELSE IF Len(v) = 0 THEN <<>>
    ELSE IF Len(v) = 1 THEN Flatten(v[1], d - 1)
    ELSE Flatten(v[1], d - 1) \o Flatten(Tail(v), d)

\* a.squeeze(): the same elements, the dimensions of size 1 dropped.
SqueezedShape(shape) == SelectSeq(shape, LAMBDA n : n # 1)

BandsOfMode(mode) == IF mode = "L" THEN 1 ELSE 3

\* Image.fromarray(a.squeeze(), mode=mode) (line 140): the bytes of the array
\* are read as size[0] x size[1] pixels of the mode.
FromArrayMode(a, mode) ==
    LET shape == SqueezedShape(Shape(a))
        nd    == Len(shape)
        bytes == Flatten(Data(a), Ndim(a))
        bpp   == BandsOfMode(mode)
    IN  IF nd > (IF mode = "L" THEN 2 ELSE 3) THEN Raise("ValueError", "none")
        ELSE IF nd = 0 THEN Raise("IndexError", "none")
        ELSE LET w == IF nd = 1 THEN 1 ELSE shape[2]
                 h == shape[1]
             IN IF Len(bytes) < w * h * bpp THEN Raise("ValueError", "none")
                ELSE Return(Image(mode, <<w, h>>,
                        [y \in 1..h |-> [x \in 1..w |->
                            [k \in 1..bpp |-> bytes[((y - 1) * w + (x - 1)) * bpp + k]]]]))


\* ------------------------------------------------- the descriptor table
Subsets == {"satellogic", "sentinel_1", "neon", "sentinel_2"}

ShardsSatellogic == 7863
ShardsSentinel1  == 1763
ShardsNeon       == 607
ShardsSentinel2  == 19997

\* sets (lines 13-28): the keys each descriptor holds.
sets ==
    [s \in Subsets |->
        CASE s = "satellogic" -> [shards |-> ShardsSatellogic, path |-> "", config |-> ""]
          [] s = "sentinel_1" -> [shards |-> ShardsSentinel1, path |-> "", config |-> ""]
          [] s = "neon"       -> [shards |-> ShardsNeon, path |-> "data", config |-> "default"]
          [] s = "sentinel_2" -> [shards |-> ShardsSentinel2, path |-> "", config |-> ""]]

\* sets[subset]: KeyError(subset) for a name the table lacks.
Descriptor(subset) ==
    IF subset \in Subsets THEN Return(sets[subset]) ELSE Raise("KeyError", subset)

get_nshards(subset) ==
    LET d == Descriptor(subset) IN IF d.ok THEN Return(d.val.shards) ELSE d

\* .get("path", subset): the descriptor's own value, else the default.
get_path(subset) ==
    LET d == Descriptor(subset) IN
    IF d.ok THEN Return(IF d.val.path = "" THEN subset ELSE d.val.path) ELSE d

get_config(subset) ==
    LET d == Descriptor(subset) IN
    IF d.ok THEN Return(IF d.val.config = "" THEN subset ELSE d.val.config) ELSE d

\* --------------------------------------------------------- item_to_images
RasterFields == {"rgb", "1m", "10m", "20m", "scl", "chm"}
Fields == RasterFields \cup {"metadata"}

\* The outcomes of narrowing a float64 outside 0..255 to uint8, which C leaves
\* undefined: the low byte of the truncated integer, or the nearest bound.
Builds == {"wrap", "saturate"}

\* astype("uint8") of a non-negative float64 whose integer part is n.
NarrowFloat(build, n) ==
    IF n < 256 THEN n ELSE IF build = "wrap" THEN n % 256 ELSE 255

\* astype("uint8") of NaN (the average of no bands).
NarrowNaN(build) == 0

RECURSIVE CollectFrom(_, _, _)
CollectFrom(rs, i, acc) ==
    IF i > Len(rs) THEN Return(PyList(acc))
    ELSE LET r == rs[i] IN IF r.ok THEN CollectFrom(rs, i + 1, Append(acc, r.val)) ELSE r

\* A list comprehension over results: the list, or the first exception.
Collect(rs) == CollectFrom(rs, 1, <<>>)

\* Image.fromarray(image.transpose(1,2,0)) (lines 104, 128, 146).
RgbImage(image) ==
    LET tr == TransposeCHW(image) IN IF tr.ok THEN FromArray(tr.val) ELSE tr

\* Image.fromarray(image[0,:,:]) (line 110).
FirstChannelImage(image) ==
    LET ch == FirstChannel(image) IN IF ch.ok THEN FromArray(ch.val) ELSE ch

\* Image.fromarray(image[0]) (line 150).
FirstPlaneImage(image) ==
    LET pl == FirstPlane(image) IN IF pl.ok THEN FromArray(pl.val) ELSE pl

\* The literal group boundaries of lines 159-161.
BandSplit1 == 124
BandSplit2 == 247

RECURSIVE SumBands(_, _, _, _, _)
\* The sum over bands lo..hi (1-based) of pixel (y, x) of one revisit.
SumBands(image, y, x, lo, hi) ==
    IF lo > hi THEN 0
    ELSE IF lo = hi THEN Data(image)[lo][y][x]
    ELSE LET mid == (lo + hi) \div 2 IN
         SumBands(image, y, x, lo, mid) + SumBands(image, y, x, mid + 1, hi)

Min(a, b) == IF a < b THEN a ELSE b

\* np.average(image[lo:hi], 0) at one pixel, narrowed to uint8: lo and hi are
\* the slice bounds of the source (0-based, hi excluded, clipped to the bands
\* there are).  The average of no bands is NaN.
BandAverage(image, y, x, lo, hi, build) ==
    IF lo + 1 > Min(hi, Shape(image)[1]) THEN NarrowNaN(build)
    ELSE SumBands(image, y, x, lo + 1, Min(hi, Shape(image)[1]))
            \div (Min(hi, Shape(image)[1]) - lo)

\* The pseudo-RGB image of three groups of a third of the bands each; C11 is
\* checked to tell it from the literal boundaries of the source.
PseudoRgbThirds(image, build) ==
    IF Ndim(image) < 3 THEN Raise("AxisError", "none")
    ELSE IF Ndim(image) > 3 THEN Raise("TypeError", "none")
    ELSE FromArray(NdArray(
            [y \in 1..Shape(image)[2] |-> [x \in 1..Shape(image)[3] |->
                << BandAverage(image, y, x, 0, Shape(image)[1] \div 3, build),
                   BandAverage(image, y, x, Shape(image)[1] \div 3,
                               2 * (Shape(image)[1] \div 3), build),
                   BandAverage(image, y, x, 2 * (Shape(image)[1] \div 3),
                               Shape(image)[1], build) >>]],
            <<Shape(image)[2], Shape(image)[3], 3>>))

\* Lines 156-162 on one revisit: the pseudo-RGB image of the three band groups.
PseudoRgbImage(image, build) ==
    IF Ndim(image) < 3 THEN Raise("AxisError", "none")
    ELSE IF Ndim(image) > 3 THEN Raise("TypeError", "none")
    ELSE FromArray(NdArray(
            [y \in 1..Shape(image)[2] |-> [x \in 1..Shape(image)[3] |->
                << BandAverage(image, y, x, 0, BandSplit1, build),
                   BandAverage(image, y, x, BandSplit1, BandSplit2, build),
                   BandAverage(image, y, x, BandSplit2, Shape(image)[1], build) >>]],
            <<Shape(image)[2], Shape(image)[3], 3>>))

\* The conversions of one revisit to an image: lines 104, 128 and 146; line
\* 110; line 150; lines 157-162.
Decode(how, image, build) ==
    CASE how = "transposed"    -> RgbImage(image)
      [] how = "first channel" -> FirstChannelImage(image)
      [] how = "first plane"   -> FirstPlaneImage(image)
      [] how = "band groups"   -> PseudoRgbImage(image, build)

\* [Decode(image) for image in a].
ImagesOver(a, how, build) ==
    IF Ndim(a) = 0 THEN Raise("TypeError", "none")
    ELSE Collect([i \in 1..Shape(a)[1] |-> Decode(how, Sub(a, i), build)])

\* len(x) of a list of images or of an array.
PyLen(x) == IF x.t = "list" THEN Len(x.v) ELSE Shape(x)[1]

\* The state of a call between two statements: whether an exception is under
\* way (and which), the local item, the metadata object, and count (Unbound
\* until a branch assigns it).  Each statement below maps a state to the next
\* and passes on an exception under way.
Unbound == [t |-> "unbound", v |-> 0]
Running(item, meta) ==
    [ok |-> TRUE, err |-> "", key |-> "", item |-> item, meta |-> meta, count |-> Unbound]
Failed(st, e) == [st EXCEPT !.ok = FALSE, !.err = e.err, !.key = e.key]

\* item[field] = r, or the exception r is.
Assign(st, field, r) ==
    IF r.ok THEN [st EXCEPT !.item[field] = r.val] ELSE Failed(st, r)

\* item[field] = [Decode(image) for image in item[field]]; KeyError(field) for
\* a field the record lacks.
ConvertRevisits(st, field, how, build) ==
    IF ~st.ok THEN st
    ELSE IF st.item[field] = Absent THEN Failed(st, Raise("KeyError", field))
    ELSE Assign(st, field, ImagesOver(st.item[field], how, build))

\* count = len(item[field]).
CountFrom(st, field) ==
    IF ~st.ok THEN st ELSE [st EXCEPT !.count = PyInt(PyLen(st.item[field]))]

\* The field the aerial branch would count were it to count the colour
\* revisits; C1 is checked to tell the two apart.
CountsRgb == "rgb"

\* The field whose revisits the aerial branch counts (line 113).
SatellogicCountField == "1m"

\* Lines 97-113.
Satellogic(st, build) ==
    CountFrom(ConvertRevisits(ConvertRevisits(st, "rgb", "transposed", build),
                              "1m", "first channel", build),
              SatellogicCountField)

\* channel0 / (channel1 + 0.01) * 256 for two bytes, as the integer part of the
\* float64 the expression yields (the two agree for all 256 x 256 byte pairs).
Ratio(c0, c1) == (c0 * 25600) \div (100 * c1 + 1)

\* Lines 117-126: the array with the synthesized channel appended on axis 1.
WithRatioChannel(a, build) ==
    IF Ndim(a) < 4 \/ Shape(a)[2] < 2 THEN Raise("IndexError", "none")
    ELSE Return(NdArray(
            [r \in 1..Shape(a)[1] |->
                Append(Data(a)[r],
                       [y \in 1..Shape(a)[3] |-> [x \in 1..Shape(a)[4] |->
                            NarrowFloat(build, Ratio(Data(a)[r][1][y][x], Data(a)[r][2][y][x]))]])],
            <<Shape(a)[1], Shape(a)[2] + 1, Shape(a)[3], Shape(a)[4]>>))

\* i10m = item["10m"] with the ratio channel (lines 117-126).
RatioStep(st, build) ==
    IF ~st.ok THEN st
    ELSE IF st.item["10m"] = Absent THEN Failed(st, Raise("KeyError", "10m"))
    ELSE Assign(st, "10m", WithRatioChannel(st.item["10m"], build))

\* Lines 114-131.
Sentinel1(st, build) ==
    CountFrom(ConvertRevisits(RatioStep(st, build), "10m", "transposed", build), "10m")

\* A selection of the first three channels; C8 is checked to tell it from the
\* selection of the source.
FirstThree == <<0, 1, 2>>

\* The channels kept of the 20m band (line 138), 0-based as in the source.
Selected20m == <<0, 2, 4>>

\* data[:,:,:,sel] on an [N,H,W,C] array.
SelectChannels(a, sel) ==
    IF \E k \in 1..Len(sel) : sel[k] >= Shape(a)[4] THEN Raise("IndexError", "none")
    ELSE Return(NdArray(
            [r \in 1..Shape(a)[1] |-> [y \in 1..Shape(a)[2] |-> [x \in 1..Shape(a)[3] |->
                [k \in 1..Len(sel) |-> Data(a)[r][y][x][sel[k] + 1]]]]],
            <<Shape(a)[1], Shape(a)[2], Shape(a)[3], Len(sel)>>))

\* data.transpose(0,2,3,1): [N,C,H,W] to [N,H,W,C].
TransposeNCHW(a) ==
    IF Ndim(a) # 4 THEN Raise("ValueError", "none")
    ELSE Return(NdArray(
            [r \in 1..Shape(a)[1] |-> [y \in 1..Shape(a)[3] |-> [x \in 1..Shape(a)[4] |->
                [c \in 1..Shape(a)[2] |-> Data(a)[r][c][y][x]]]]],
            <<Shape(a)[1], Shape(a)[3], Shape(a)[4], Shape(a)[2]>>))

\* The bands of the optical subset in the order the loop takes them (line 133).
OpticalBands == <<"10m", "20m", "rgb", "scl">>

ModeOfBand(channel) == IF channel \in {"10m", "scl"} THEN "L" ELSE "RGB"

\* Lines 137-138: the 20m band keeps the selected channels.
SelectFor(r, channel) ==
    IF ~r.ok \/ channel # "20m" THEN r ELSE SelectChannels(r.val, Selected20m)

\* Line 140: one image per revisit.
DecodeAll(r, mode) ==
    IF ~r.ok THEN r
    ELSE Collect([i \in 1..Shape(r.val)[1] |-> FromArrayMode(Sub(r.val, i), mode)])

\* One turn of the loop of lines 133-141: the band's images, and count.
OpticalBand(st, channel) ==
    IF ~st.ok THEN st
    ELSE IF st.item[channel] = Absent THEN Failed(st, Raise("KeyError", channel))
    ELSE CountFrom(Assign(st, channel,
                          DecodeAll(SelectFor(TransposeNCHW(st.item[channel]), channel),
                                    ModeOfBand(channel))),
                   channel)

RECURSIVE OpticalLoop(_, _)
\* The loop of lines 133-141 from its k-th band on.
OpticalLoop(st, k) ==
    IF k > Len(OpticalBands) THEN st ELSE OpticalLoop(OpticalBand(st, OpticalBands[k]), k + 1)

\* The digits of n >= 0, as the characters of its text.
RECURSIVE Digits(_)
Digits(n) == IF n < 10 THEN <<n>> ELSE Append(Digits(n \div 10), n % 10)

\* [json.loads(s) for s in x] (line 143): a list yields its elements, a dict its
\* keys, a str its characters (each a text of its own), anything else TypeError.
LoadsEach(x) ==
    CASE x.t = "list" -> Collect([i \in 1..Len(x.v) |-> JsonLoads(x.v[i])])
      [] x.t = "dict" -> IF \A k \in Keys : x.v[k] = Absent THEN Return(PyList(<<>>))
                         ELSE Raise("JSONDecodeError", "none")
      [] x.t = "str"  -> IF Len(x.v) = 0 THEN Return(PyList(<<>>))
                         ELSE IF Len(x.v) = 1 /\ x.v[1].t = "num" /\ x.v[1].v >= 0
                         THEN Return(PyList([i \in 1..Len(Digits(x.v[1].v)) |->
                                                PyInt(Digits(x.v[1].v)[i])]))
                         ELSE Raise("JSONDecodeError", "none")
      [] OTHER -> Raise("TypeError", "none")

\* metadata[key]: TypeError unless metadata is a mapping, KeyError(key) when
\* the mapping lacks the key.
MetaGet(meta, key) ==
    IF meta.t # "dict" THEN Raise("TypeError", "none")
    ELSE IF meta.v[key] = Absent THEN Raise("KeyError", key)
    ELSE Return(meta.v[key])

\* metadata[key] = r on the metadata object, or the exception r is; TypeError
\* unless the object is a mapping.
SetMeta(st, key, r) ==
    IF ~st.ok THEN st
    ELSE IF ~r.ok THEN Failed(st, r)
    ELSE IF st.meta.t # "dict" THEN Failed(st, Raise("TypeError", "none"))
    ELSE [st EXCEPT !.meta = PyDict([st.meta.v EXCEPT ![key] = r.val])]

\* The comprehension of line 143 on what metadata[field] gave.
LoadsEachOf(r) == IF r.ok THEN LoadsEach(r.val) ELSE r

NestedJsonFields == <<"solarAngles", "tileGeometry", "viewIncidenceAngles">>

\* One turn of the loop of lines 142-143.
ParseNestedField(st, field) ==
    IF ~st.ok THEN st
    ELSE SetMeta(st, field, LoadsEachOf(MetaGet(st.meta, field)))

RECURSIVE ParseNestedFields(_, _)
\* The loop of lines 142-143 from its k-th field on: each field is replaced in
\* the metadata object before the next is read.
ParseNestedFields(st, k) ==
    IF k > Len(NestedJsonFields) THEN st
    ELSE ParseNestedFields(ParseNestedField(st, NestedJsonFields[k]), k + 1)

\* Lines 132-143.
Sentinel2(st) == ParseNestedFields(OpticalLoop(st, 1), 1)

\* The bounds left in their order; C6 is checked to tell it from the swap.
KeepPairs(bounds) == Return(PyList(bounds))

\* [bounds[i+1-l] for i in range(0, len(bounds), 2) for l in range(2)] (line
\* 169) on a list of n elements: position p (1-based) takes its pair's other
\* element, and an odd n reads one past the end.
SwapPairs(bounds) ==
    IF Len(bounds) % 2 = 1 THEN Raise("IndexError", "none")
    ELSE Return(PyList([p \in 1..Len(bounds) |->
                            IF p % 2 = 1 THEN bounds[p + 1] ELSE bounds[p - 1]]))

\* Line 169 on whatever metadata["bounds"] holds.  The characters of a str are
\* not modelled, so no arm takes a str: the records of the model hold none.
SwappedBounds(bounds) ==
    CASE bounds.t = "list" -> SwapPairs(bounds.v)
      [] bounds.t = "dict" ->
            IF \A k \in Keys : bounds.v[k] = Absent THEN Return(PyList(<<>>))
            ELSE Raise("KeyError", "1")
      [] bounds.t \in {"int", "none"} -> Raise("TypeError", "none")

Epsg4326 == PyStr(<<Word("EPSG:4326")>>)

\* The comprehension of line 169 on what metadata["bounds"] gave.
SwappedOf(r) == IF r.ok THEN SwappedBounds(r.val) ELSE r

\* Lines 166-169.
SwapBounds(st) ==
    IF ~st.ok THEN st
    ELSE SetMeta(st, "bounds", SwappedOf(MetaGet(st.meta, "bounds")))

\* Lines 144-164.
NeonImages(st, build) ==
    ConvertRevisits(
        ConvertRevisits(ConvertRevisits(st, "rgb", "transposed", build),
                        "chm", "first plane", build),
        "1m", "band groups", build)

\* Lines 144-172.
Neon(st, build) ==
    SetMeta(SwapBounds(CountFrom(NeonImages(st, build), "rgb")), "epsg", Return(Epsg4326))

\* Lines 90-94: every field but the metadata as a uint8 array.
ConvertFields(item) ==
    IF \E f \in RasterFields : item[f] # Absent /\ ~AsUint8Array(item[f]).ok
    THEN Raise("ValueError", "none")
    ELSE Return([f \in Fields |->
                    IF f = "metadata" \/ item[f] = Absent THEN Absent
                    ELSE AsUint8Array(item[f]).val])

\* The metadata taken as it comes, a text left a text; C5 is checked to tell it
\* from the parse of lines 87-88.
LoadMetadataUnparsed(item) ==
    IF item["metadata"] = Absent THEN Raise("KeyError", "metadata")
    ELSE Return(item["metadata"])

\* Lines 86-88: the metadata object of the call.
LoadMetadata(item) ==
    IF item["metadata"] = Absent THEN Raise("KeyError", "metadata")
    ELSE IF item["metadata"].t = "str" THEN JsonLoads(item["metadata"])
    ELSE Return(item["metadata"])

\* Lines 86-95: the local item and the metadata object the branches start from.
Begin(item, meta, fields) ==
    IF ~meta.ok THEN Failed(Running(item, item["metadata"]), meta)
    ELSE IF ~fields.ok THEN Failed(Running(item, meta.val), fields)
    ELSE Running(fields.val, meta.val)

\* The subset-specific branch of lines 97-172; a name no branch takes leaves
\* count unbound.
Branch(subset, st, build) ==
    IF ~st.ok THEN st
    ELSE CASE subset = "satellogic" -> Satellogic(st, build)
           [] subset = "sentinel_1" -> Sentinel1(st, build)
           [] subset = "sentinel_2" -> Sentinel2(st)
           [] subset = "neon"       -> Neon(st, build)
           [] OTHER -> st

\* item["metadata"]["count"] = count (line 174).
SetCount(st) ==
    IF ~st.ok THEN st
    ELSE IF st.count = Unbound THEN Failed(st, Raise("UnboundLocalError", "count"))
    ELSE SetMeta(st, "count", Return(st.count))

\* What a call leaves behind: its result (the returned record or the
\* exception), the metadata object as the call left it, and whether that object
\* is the one the caller's record holds (it is unless json.loads made a new one).
Outcome(st, own) ==
    [res |-> IF st.ok THEN Return([st.item EXCEPT !["metadata"] = st.meta])
             ELSE Raise(st.err, st.key),
     meta |-> st.meta,
     shared |-> own]

\* item_to_images(subset, item) (lines 77-175).
item_to_images(subset, item, build) ==
    Outcome(SetCount(Branch(subset, Begin(item, LoadMetadata(item), ConvertFields(item)), build)),
            item["metadata"].t \notin {"str", "absent"})

\* The caller's record after a call on it: the record itself is never written
\* (line 90 builds a new one); its metadata object is, when the call shares it.
CallerAfter(item, out) ==
    IF out.shared THEN [item EXCEPT !["metadata"] = out.meta] ELSE item

\* ------------------------------------------------------------ load_dataset
DigitChars == <<"0", "1", "2", "3", "4", "5", "6", "7", "8", "9">>

RECURSIVE ZeroPad(_, _)
ZeroPad(chars, width) ==
    IF Len(chars) >= width THEN chars ELSE ZeroPad(<<"0">> \o chars, width)

\* f"{n}" for n >= 0.
FormatInt(n) == [i \in 1..Len(Digits(n)) |-> DigitChars[Digits(n)[i] + 1]]

\* A number written without its padding; C10 is checked to tell it from the
\* :05d of the source.
FormatUnpadded(n) == FormatInt(n)

\* f"{n:05d}" for n >= 0: the characters of the text.
Format05d(n) == ZeroPad(FormatInt(n), 5)

\* Line 50: the two-level path of one optical shard.  A text is the sequence of
\* its pieces: names and literals whole, numbers digit by digit.
OpticalFile(path, split, shard) ==
    <<path, "/sentinel_2-">> \o FormatInt(shard \div 10) \o <<"/", split, "-">>
        \o Format05d(shard % 10) \o <<"-of-00010.parquet">>

\* Line 52: the path of one shard of the other subsets.
ShardFile(path, split, shard, nshards) ==
    <<path, "/", split, "-">> \o Format05d(shard) \o <<"-of-">> \o Format05d(nshards)
        \o <<".parquet">>

NoShards == [t |-> "none", v |-> <<>>]

\* load_dataset(subset, split=split, shards=shards) (lines 42-65) up to the
\* call of the datasets library: the config and data files it hands over.
load_dataset(subset, split, shards) ==
    LET config  == get_config(subset)
        nshards == get_nshards(subset)
        path    == get_path(subset)
    IN  IF ~config.ok THEN config
        ELSE Return([config |-> config.val,
                     split |-> split,
                     data_files |->
                        IF shards.t = "none" THEN NoShards
                        ELSE PyList([i \in 1..Len(shards.v) |->
                                IF subset = "sentinel_2"
                                THEN OpticalFile(path.val, split, shards.v[i])
                                ELSE ShardFile(path.val, split, shards.v[i], nshards.val)])])

\* ------------------------------------------------------------- the records
\* The values of the pixels the records of the model hold.
Palette == <<100, 0, 255, 7, 31, 200, 64>>

\* The offsets into the palette at which a record's pixels start.
Seeds == {0, 1}

Pixel(seed, r, c, y, x) ==
    Palette[((seed + (c - 1) + 2 * (y - 1) + 3 * (x - 1) + 5 * (r - 1)) % Len(Palette)) + 1]

\* The bands of a hyperspectral revisit (line 154).
HyperspectralBands == 369

\* The raster fields of each subset in the dataset, with their channels.
SubsetFields(subset) ==
    CASE subset = "sentinel_1" -> {"10m"}
      [] subset = "sentinel_2" -> {"10m", "20m", "rgb", "scl"}
      [] subset = "neon"       -> {"rgb", "chm", "1m"}
      [] OTHER                 -> {"rgb", "1m"}

ChannelsOf(subset, field) ==
    CASE field = "rgb" -> 3
      [] field = "20m" -> 5
      [] field = "10m" /\ subset = "sentinel_1" -> 2
      [] field = "1m" /\ subset = "neon" -> HyperspectralBands
      [] OTHER -> 1

\* A raster field of n revisits of c channels of h x w pixels.
MkRaster(n, c, h, w, seed) ==
    Nested([r \in 1..n |-> [ch \in 1..c |-> [y \in 1..h |-> [x \in 1..w |->
                Pixel(seed, r, ch, y, x)]]]], 4)

\* The value band c of a hyperspectral revisit holds at a pixel: it rises with
\* the band, so that the averages over different bands differ, and stays
\* below 256.
Spectrum(seed, r, c, y, x) ==
    (2 * (c - 1)) \div 3 + ((seed + 2 * (y - 1) + 3 * (x - 1) + 5 * (r - 1)) % 7)

\* A hyperspectral raster field of n revisits of c bands of h x w pixels.
MkSpectral(n, c, h, w, seed) ==
    Nested([r \in 1..n |-> [ch \in 1..c |-> [y \in 1..h |-> [x \in 1..w |->
                Spectrum(seed, r, ch, y, x)]]]], 4)

\* The same with one pixel more in the first row of the first channel of the
\* first revisit: ragged for c >= 2.
MkRagged(n, c, h, w, seed) ==
    LET a == MkRaster(n, c, h, w, seed).v[2] IN
    Nested([a EXCEPT ![1][1][1] = Append(a[1][1][1], 1)], 4)

\* The same without the channel axis.
MkFlat(n, h, w, seed) ==
    Nested([r \in 1..n |-> [y \in 1..h |-> [x \in 1..w |-> Pixel(seed, r, 1, y, x)]]], 3)

DefectKinds == {"missing", "ragged", "flat", "narrow"}
NoDefect == [kind |-> "none", field |-> "none"]

Defects(subset) ==
    {[kind |-> k, field |-> f] : k \in DefectKinds, f \in SubsetFields(subset)}
        \ {d \in [kind : {"ragged", "narrow"}, field : RasterFields] :
                ChannelsOf(subset, d.field) < 2}

\* The fields that hold one revisit count and those that hold the other.
FirstGroup == {"rgb", "10m"}

\* A sound raster field of the subset with c channels.
MkSound(subset, f, n, c, h, w, seed) ==
    IF subset = "neon" /\ f = "1m" THEN MkSpectral(n, c, h, w, seed)
    ELSE MkRaster(n, c, h, w, seed)

MkField(subset, f, nA, nB, h, w, seed, defect) ==
    LET n == IF f \in FirstGroup THEN nA ELSE nB
        c == ChannelsOf(subset, f)
    IN  IF f \notin SubsetFields(subset) THEN Absent
        ELSE IF defect.field # f THEN MkSound(subset, f, n, c, h, w, seed)
        ELSE CASE defect.kind = "missing" -> Absent
               [] defect.kind = "ragged"  -> MkRagged(n, c, h, w, seed)
               [] defect.kind = "flat"    -> MkFlat(n, h, w, seed)
               [] defect.kind = "narrow"  -> MkSound(subset, f, n, c - 1, h, w, seed)

MkRecord(subset, nA, nB, h, w, seed, defect, meta) ==
    [f \in Fields |-> IF f = "metadata" THEN meta
                      ELSE MkField(subset, f, nA, nB, h, w, seed, defect)]

\* The order in which a mapping's keys are written.
KeyOrder == <<"bounds", "epsg", "count", "solarAngles", "tileGeometry",
              "viewIncidenceAngles", "zenith">>

RECURSIVE JsonText(_)
RECURSIVE JoinTexts(_, _)
\* The texts of the values vs[i..], separated by commas.
JoinTexts(vs, i) ==
    IF i > Len(vs) THEN <<>>
    ELSE IF i = Len(vs) THEN vs[i]
    ELSE vs[i] \o <<Punct(",")>> \o JoinTexts(vs, i + 1)

\* The JSON text of a value, as the dataset serializes a metadata block.
JsonText(val) ==
    CASE val.t = "int"  -> <<Num(val.v)>>
      [] val.t = "none" -> <<Word("null")>>
      [] val.t = "str"  -> <<Quoted(val.v)>>
      [] val.t = "list" ->
            <<Punct("[")>> \o JoinTexts([i \in 1..Len(val.v) |-> JsonText(val.v[i])], 1)
                \o <<Punct("]")>>
      [] val.t = "dict" ->
            LET present == SelectSeq(KeyOrder, LAMBDA k : val.v[k] # Absent) IN
            <<Punct("{")>>
                \o JoinTexts([i \in 1..Len(present) |->
                                <<Quoted(<<Word(present[i])>>), Punct(":")>>
                                    \o JsonText(val.v[present[i]])], 1)
                \o <<Punct("}")>>

\* All but the last lexeme of a text: no JSON value.
Truncated(text) == SubSeq(text, 1, Len(text) - 1)

Angles      == PyDict([EmptyMap EXCEPT !["zenith"] = PyInt(30)])
AnglesText  == PyStr(JsonText(Angles))
BrokenText  == PyStr(Truncated(JsonText(Angles)))
Coordinates == <<PyInt(11), PyInt(12), PyInt(13), PyInt(14), PyInt(15), PyInt(16)>>

\* A metadata block as the dataset holds it: the nested fields are lists of
\* JSON texts.
FullMeta ==
    PyDict([EmptyMap EXCEPT !["bounds"] = PyList(SubSeq(Coordinates, 1, 4)),
                            !["epsg"] = PyStr(<<Word("EPSG:32610")>>),
                            !["solarAngles"] = PyList(<<AnglesText>>),
                            !["tileGeometry"] = PyList(<<AnglesText, AnglesText>>),
                            !["viewIncidenceAngles"] = PyList(<<AnglesText>>)])

With(meta, key, val) == PyDict([meta.v EXCEPT ![key] = val])

\* The mappings a record's metadata block may be.
MetaMappings ==
    { FullMeta, PyDict(EmptyMap),
      With(FullMeta, "epsg", Absent),
      With(FullMeta, "count", PyInt(7)),
      With(FullMeta, "bounds", Absent),
      With(FullMeta, "bounds", PyNone),
      With(FullMeta, "bounds", PyDict(EmptyMap)),
      With(FullMeta, "viewIncidenceAngles", Absent),
      With(FullMeta, "tileGeometry", PyList(<<AnglesText, BrokenText>>)),
      With(FullMeta, "solarAngles", PyStr(JsonText(PyList(<<AnglesText>>)))),
      With(With(With(FullMeta, "solarAngles", PyList(<<Angles>>)),
                "tileGeometry", PyList(<<Angles, Angles>>)),
           "viewIncidenceAngles", PyList(<<Angles>>)) }
      \cup { With(FullMeta, "bounds", PyList(SubSeq(Coordinates, 1, n))) : n \in 0..Len(Coordinates) }

\* The metadata blocks of the records of the model: a mapping, its JSON text,
\* and texts and values that are no mapping.
MetaBlocks ==
    MetaMappings
        \cup { PyStr(JsonText(m)) : m \in MetaMappings }
        \cup { PyStr(Truncated(JsonText(FullMeta))),
               PyStr(<<>>),
               PyStr(JsonText(PyList(<<PyInt(1)>>))),
               PyStr(JsonText(PyStr(JsonText(FullMeta)))),
               PyNone,
               Absent }

UnknownSubsets == {"sentinel-1", "landsat"}
SubsetNames == Subsets \cup UnknownSubsets

Shapes == {hw \in (1..MaxSide) \X (1..MaxSide) : hw[1] <= hw[2]}

\* The records item_to_images is called on: every shape with a sound metadata
\* block (as a mapping and as text); every defect of a raster field, on the
\* largest tile; every metadata block.
Records(subset) ==
    { MkRecord(subset, nA, nB, hw[1], hw[2], seed, NoDefect, FullMeta) :
        nA \in 1..MaxRevisits, nB \in 1..MaxRevisits, hw \in Shapes, seed \in Seeds }
    \cup
    { MkRecord(subset, nA, nB, hw[1], hw[2], 0, NoDefect, PyStr(JsonText(FullMeta))) :
        nA \in 1..MaxRevisits, nB \in 1..MaxRevisits, hw \in Shapes }
    \cup
    { MkRecord(subset, n, 1, MaxSide, MaxSide, 0, defect, FullMeta) :
        n \in 1..MaxRevisits, defect \in Defects(subset) }
    \cup
    { MkRecord(subset, MaxRevisits, 1, MaxSide, MaxSide, 0, NoDefect, meta) :
        meta \in MetaBlocks }

\* ------------------------------------------------------------ the callers
VARIABLES
    pc,          \* "idle", or the kind of the last call
    op,          \* the function last called
    subset,      \* its subset argument
    build,       \* how this build narrows an out-of-range float64
    arg,         \* the record passed to item_to_images, as it was at the call
    callerItem,  \* the same record as the caller sees it after the call
    ret,         \* what the call returned or raised
    shared,      \* whether the metadata of ret is the caller's own object
    normalized,  \* whether the call was passed metadata an earlier call returned
    prev,        \* what the call before returned or raised
    calls,       \* the calls made on this record
    split,       \* load_dataset's split
    shards       \* load_dataset's shards

\* The state of a run of download_images.py.
VARIABLES
    line,                    \* where the script is
    num_images_to_download,  \* line 11
    shard_pos,               \* the position of the loop of line 29 in selected_shard_indices
    all_examples,            \* the shards loaded, each named by its position (0: the default shard)
    images_saved,
    per_shard_samples,
    shard_id,                \* enumerate's index of the loop of line 103
    remaining,               \* the random_indices the loop of line 114 has yet to take
    saved_files,             \* per shard_id, the files line 127 has written
    exit_status              \* the status the script exited with, -1 while it has not

scriptVars == <<line, num_images_to_download, shard_pos, all_examples, images_saved,
                per_shard_samples, shard_id, remaining, saved_files, exit_status>>

viewVars == <<pc, op, subset, build, arg, callerItem, ret, shared, normalized, prev, calls,
              split, shards>>

vars == <<viewVars, scriptVars>>

\* No run of the script.
ScriptOff ==
    /\ line = "off"
    /\ num_images_to_download = 0
    /\ shard_pos = 0
    /\ all_examples = <<>>
    /\ images_saved = 0
    /\ per_shard_samples = 0
    /\ shard_id = 0
    /\ remaining = 0
    /\ saved_files = <<>>
    /\ exit_status = -1

NoItem == [f \in Fields |-> Absent]
NoRet  == Raise("", "")

\* A caller holds a record of the dataset and the name of its subset, or holds
\* none and asks the descriptor table.
Init ==
    /\ pc = "idle"
    /\ op = ""
    /\ build \in Builds
    /\ \/ /\ subset \in SubsetNames
          /\ callerItem \in Records(subset)
       \/ /\ subset = ""
          /\ callerItem = NoItem
    /\ arg = NoItem
    /\ ret = NoRet
    /\ shared = FALSE
    /\ normalized = FALSE
    /\ prev = NoRet
    /\ calls = 0
    /\ split = ""
    /\ shards = NoShards
    /\ ScriptOff

\* One call of item_to_images(subset, item) by a caller holding item.
CallOn(item, norm) ==
    LET out == item_to_images(subset, item, build) IN
    /\ pc' = "called"
    /\ op' = "item_to_images"
    /\ arg' = item
    /\ callerItem' = CallerAfter(item, out)
    /\ ret' = out.res
    /\ shared' = out.shared
    /\ normalized' = norm
    /\ prev' = ret
    /\ calls' = calls + 1
    /\ UNCHANGED <<subset, build, split, shards>>
    /\ UNCHANGED scriptVars

\* The caller normalizes its record.
Normalize ==
    /\ pc = "idle"
    /\ subset # ""
    /\ CallOn(callerItem, FALSE)

\* The caller passes the same record again.
NormalizeAgain ==
    /\ pc = "called"
    /\ calls < MaxCalls
    /\ CallOn(callerItem, ret.ok /\ shared)

\* The caller passes the record again with the metadata the call returned.
NormalizeReturned ==
    /\ pc = "called"
    /\ calls < MaxCalls
    /\ ret.ok
    /\ CallOn([arg EXCEPT !["metadata"] = ret.val["metadata"]], TRUE)

LookupNames == {"get_nshards", "get_path", "get_config"}

\* One of the descriptor lookups.
Lookup ==
    /\ pc = "idle"
    /\ subset = ""
    /\ \E fn \in LookupNames : \E s \in SubsetNames :
        /\ op' = fn
        /\ subset' = s
        /\ ret' = CASE fn = "get_nshards" -> get_nshards(s)
                    [] fn = "get_path"    -> get_path(s)
                    [] fn = "get_config"  -> get_config(s)
    /\ pc' = "looked"
    /\ UNCHANGED <<build, arg, callerItem, shared, normalized, prev, calls, split, shards>>
    /\ UNCHANGED scriptVars

\* The shard indices the model asks for: the first ones and the last ones.
ShardIndices(s) ==
    (0..MaxShard) \cup (IF s \in Subsets THEN {sets[s].shards - 2, sets[s].shards - 1} ELSE {})

ShardLists(s) ==
    {NoShards} \cup {PyList(<<>>)}
        \cup {PyList(<<a>>) : a \in ShardIndices(s)}
        \cup {PyList(<<a, b>>) : a \in ShardIndices(s), b \in ShardIndices(s)}

LoadDataset ==
    /\ pc = "idle"
    /\ subset = ""
    /\ \E s \in SubsetNames : \E sp \in {"train"} : \E sh \in ShardLists(s) :
        /\ op' = "load_dataset"
        /\ subset' = s
        /\ split' = sp
        /\ shards' = sh
        /\ ret' = load_dataset(s, sp, sh)
    /\ pc' = "loaded"
    /\ UNCHANGED <<build, arg, callerItem, shared, normalized, prev, calls>>
    /\ UNCHANGED scriptVars

Next == Normalize \/ NormalizeAgain \/ NormalizeReturned \/ Lookup \/ LoadDataset

Spec == Init /\ [][Next]_vars

\* ------------------------------------------------- download_images.py
\* The shards the script selects (line 20).
num_shards_to_use == 5

Max(a, b) == IF a > b THEN a ELSE b

\* No caller of earthview.py.
ViewOff ==
    /\ pc = "idle"
    /\ op = ""
    /\ subset = ""
    /\ build = "wrap"
    /\ arg = NoItem
    /\ callerItem = NoItem
    /\ ret = NoRet
    /\ shared = FALSE
    /\ normalized = FALSE
    /\ prev = NoRet
    /\ calls = 0
    /\ split = ""
    /\ shards = NoShards

\* The script after line 26: the shards are selected, none is loaded.  The
\* number of images to download is the script's setting ("Change this to
\* download more images").
DownloadInit ==
    /\ ViewOff
    /\ line = "load"
    /\ num_images_to_download \in 0..MaxImages
    /\ shard_pos = 1
    /\ all_examples = <<>>
    /\ images_saved = 0
    /\ per_shard_samples = 0
    /\ shard_id = 0
    /\ remaining = 0
    /\ saved_files = <<>>
    /\ exit_status = -1

\* Line 50: where the script goes once the loop over the selected shards ends.
AfterLoading(examples) == IF Len(examples) = 0 THEN "fallback" ELSE "count"

\* One turn of the loop of lines 29-47: the shard loads and is appended, or
\* load_dataset raises and the loop goes on.
LoadShard ==
    /\ line = "load"
    /\ shard_pos <= num_shards_to_use
    /\ \E loaded \in BOOLEAN :
          /\ all_examples' = IF loaded THEN Append(all_examples, shard_pos) ELSE all_examples
          /\ line' = IF shard_pos < num_shards_to_use THEN "load"
                     ELSE AfterLoading(all_examples')
    /\ shard_pos' = shard_pos + 1
    /\ UNCHANGED <<num_images_to_download, images_saved, per_shard_samples, shard_id,
                   remaining, saved_files, exit_status>>
    /\ UNCHANGED viewVars

\* The fallback of lines 50-63 that goes on to the sampling whether or not the
\* default shard loads; C13 is checked to tell it from the exit of line 63.
LoadFallbackGoesOn ==
    /\ line = "fallback"
    /\ \E loaded \in BOOLEAN :
          all_examples' = IF loaded THEN Append(all_examples, 0) ELSE all_examples
    /\ line' = "count"
    /\ UNCHANGED <<num_images_to_download, shard_pos, images_saved, per_shard_samples,
                   shard_id, remaining, saved_files, exit_status>>
    /\ UNCHANGED viewVars

\* Lines 50-63: the default shard loads and is appended, or the script exits
\* with status 1.
LoadFallback ==
    /\ line = "fallback"
    /\ \E loaded \in BOOLEAN :
          IF loaded
          THEN /\ all_examples' = Append(all_examples, 0)
               /\ line' = "count"
               /\ UNCHANGED exit_status
          ELSE /\ line' = "exited"
               /\ exit_status' = 1
               /\ UNCHANGED all_examples
    /\ UNCHANGED <<num_images_to_download, shard_pos, images_saved, per_shard_samples,
                   shard_id, remaining, saved_files>>
    /\ UNCHANGED viewVars

\* Lines 97-101: the counters of the sampling.  The division of line 101
\* raises ZeroDivisionError when no shard is loaded.
ComputePerShard ==
    /\ line = "count"
    /\ IF Len(all_examples) = 0
       THEN /\ line' = "crashed"
            /\ UNCHANGED <<images_saved, per_shard_samples, shard_id, saved_files>>
       ELSE /\ line' = "shard"
            /\ images_saved' = 0
            /\ per_shard_samples' = Max(1, num_images_to_download \div Len(all_examples))
            /\ shard_id' = 0
            /\ saved_files' = [i \in 1..Len(all_examples) |-> 0]
    /\ UNCHANGED <<num_images_to_download, shard_pos, all_examples, remaining, exit_status>>
    /\ UNCHANGED viewVars

\* Lines 103-111: the loop takes the next shard, of whatever length the
\* dataset has, and samples its indices; it ends after the last shard.
NextShard ==
    /\ line = "shard"
    /\ IF shard_id >= Len(all_examples)
       THEN /\ line' = "done"
            /\ UNCHANGED <<shard_id, remaining>>
       ELSE \E shard_size \in 0..MaxShardSize :
               IF Min(shard_size, per_shard_samples * 2) <= 0
               THEN /\ shard_id' = shard_id + 1
                    /\ UNCHANGED <<line, remaining>>
               ELSE /\ remaining' = Min(shard_size, per_shard_samples * 2)
                    /\ line' = "example"
                    /\ UNCHANGED shard_id
    /\ UNCHANGED <<num_images_to_download, shard_pos, all_examples, images_saved,
                   per_shard_samples, saved_files, exit_status>>
    /\ UNCHANGED viewVars

\* A limit that never holds; C12 is checked to tell it from line 133.
NeverLimited(saved, limit, wanted) == FALSE

\* Line 133: the shard has given its share.
ShareReached(saved, limit, wanted) == saved % limit = 0 /\ saved < wanted

\* One turn of the loop of lines 114-139: the loop is exhausted or breaks at
\* line 116, or the example is saved (and the loop breaks at line 135 when the
\* share is reached), or process_example returns None, or something raises.
ProcessExample ==
    /\ line = "example"
    /\ IF remaining = 0 \/ images_saved >= num_images_to_download
       THEN /\ line' = "shard"
            /\ shard_id' = shard_id + 1
            /\ remaining' = 0
            /\ UNCHANGED <<images_saved, saved_files>>
       ELSE \E outcome \in {"saved", "none", "error"} :
               IF outcome = "saved"
               THEN /\ images_saved' = images_saved + 1
                    /\ saved_files' = [saved_files EXCEPT ![shard_id + 1] = @ + 1]
                    /\ IF ShareReached(images_saved + 1, per_shard_samples,
                                       num_images_to_download)
                       THEN /\ line' = "shard"
                            /\ shard_id' = shard_id + 1
                            /\ remaining' = 0
                       ELSE /\ remaining' = remaining - 1
                            /\ UNCHANGED <<line, shard_id>>
               ELSE /\ remaining' = remaining - 1
                    /\ UNCHANGED <<line, shard_id, images_saved, saved_files>>
    /\ UNCHANGED <<num_images_to_download, shard_pos, all_examples, per_shard_samples,
                   exit_status>>
    /\ UNCHANGED viewVars

DownloadNext == LoadShard \/ LoadFallback \/ ComputePerShard \/ NextShard \/ ProcessExample

DownloadSpec == DownloadInit /\ [][DownloadNext]_vars

\* ------------------------------------------------------------- properties
\* The last call was item_to_images; it returned a record.
Called   == op = "item_to_images"
Returned == Called /\ ret.ok

\* The revisits a raster field holds as the dataset delivers it.
Revisits(field) == Len(field.v[2])

\* The metadata mapping the call starts from: the value of the text when the
\* record holds a text.
MetaIn ==
    IF arg["metadata"].t = "str" THEN JsonLoads(arg["metadata"]).val ELSE arg["metadata"]

\* A raster field of full rank with the channels the subset has and at least
\* one revisit.
WellFormed(field, channels, minSide) ==
    /\ field.t = "nested"
    /\ field.v[1] = 4
    /\ LET s == ShapeOf(field.v[2], 4) IN
       /\ s.ok
       /\ Len(s.shape) = 4
       /\ s.shape[1] >= 1
       /\ s.shape[2] = channels
       /\ s.shape[3] >= minSide
       /\ s.shape[4] >= minSide

\* The optical branch squeezes a side of one pixel away (line 140) and fails
\* on the colour bands of such a tile; the other branches take any side.
MinSide(s) == IF s = "sentinel_2" THEN 2 ELSE 1

\* A record as the dataset holds it for the subset, its metadata a mapping or
\* the text of one.
Valid(s, item) ==
    /\ s \in Subsets
    /\ \A f \in SubsetFields(s) : WellFormed(item[f], ChannelsOf(s, f), MinSide(s))
    /\ item["metadata"] \in {FullMeta, PyStr(JsonText(FullMeta))}

\* The field whose revisits each branch leaves in count.
CountedField(s) ==
    CASE s = "satellogic" -> "1m"
      [] s = "sentinel_1" -> "10m"
      [] s = "sentinel_2" -> "scl"
      [] s = "neon"       -> "rgb"

\* C1 (as amended): whenever item_to_images returns, metadata["count"] is the
\* number of revisits of the field the subset's branch counts last, which is
\* also the number of images returned for that field: "1m" for satellogic,
\* "10m" for sentinel_1, "scl" for sentinel_2, "rgb" for neon.
C1_CountIsCountedFieldRevisits ==
    Returned =>
        /\ ret.val["metadata"].v["count"] = PyInt(Revisits(arg[CountedField(subset)]))
        /\ ret.val[CountedField(subset)].t = "list"
        /\ Len(ret.val[CountedField(subset)].v) = Revisits(arg[CountedField(subset)])

\* C1, witness: an aerial record whose two raster fields hold different
\* numbers of revisits is returned.
C1_Witness ==
    /\ Returned
    /\ subset = "satellogic"
    /\ Revisits(arg["rgb"]) # Revisits(arg["1m"])

\* The field C1 names as primary.
PrimaryField(s) == IF s = "sentinel_1" THEN "10m" ELSE "rgb"

\* C1 as stated: for satellogic, neon and sentinel_1, metadata["count"] is the
\* number of revisits of "rgb", "rgb" and "10m", also when the raster fields
\* hold different numbers of revisits.
C1_CountIsPrimaryFieldRevisits ==
    (Returned /\ subset \in {"satellogic", "neon", "sentinel_1"}) =>
        ret.val["metadata"].v["count"] = PyInt(Revisits(arg[PrimaryField(subset)]))

\* C2 as stated: a call of item_to_images, of a lookup or of load_dataset with
\* a name the table lacks ends in the table's KeyError for that name.
C2_UnknownSubsetIsLookupError ==
    (pc # "idle" /\ subset \notin Subsets) => ret = Raise("KeyError", subset)

\* C3 as stated: after a call of item_to_images the caller's record, its
\* metadata included, is as it was passed.
C3_CallerRecordUnchanged ==
    Called => callerItem = arg

\* C4 as stated: a call on metadata an earlier call returned neither fails nor
\* changes that metadata.
C4_NormalizedMetadataKept ==
    (Called /\ normalized) =>
        /\ ret.ok
        /\ ret.val["metadata"] = prev.val["metadata"]

\* The metadata keys the subset's branch writes.
WrittenKeys(s) ==
    {"count"} \cup (CASE s = "neon" -> {"bounds", "epsg"}
                      [] s = "sentinel_2" -> {"solarAngles", "tileGeometry", "viewIncidenceAngles"}
                      [] OTHER -> {})

\* A list of n decoded images.
IsImages(x, n) ==
    /\ x.t = "list"
    /\ Len(x.v) = n
    /\ \A i \in 1..n : x.v[i].t = "image"

\* C5: whenever item_to_images returns, the returned metadata is a mapping,
\* every raster field of the subset is a list of one decoded image per revisit,
\* and a metadata block that came as a JSON text shows in the result as the
\* mapping the text denotes (the keys the branch does not write hold the
\* values of the text); and a record as the dataset holds it, with its
\* metadata as a mapping or as text, is returned.
C5_ReturnedRecordIsNormalized ==
    /\ Returned =>
        /\ ret.val["metadata"].t = "dict"
        /\ \A f \in SubsetFields(subset) : IsImages(ret.val[f], Revisits(arg[f]))
        /\ arg["metadata"].t = "str" =>
              \A k \in Keys \ WrittenKeys(subset) :
                  ret.val["metadata"].v[k] = MetaIn.v[k]
    /\ (Called /\ Valid(subset, arg)) => ret.ok

\* C5, witness: an optical record whose metadata came as a JSON text is
\* returned.
C5_Witness ==
    /\ Returned
    /\ subset = "sentinel_2"
    /\ arg["metadata"].t = "str"

\* C6: whenever item_to_images returns for neon, the returned "epsg" is the
\* text EPSG:4326 whatever the input held, and the returned "bounds" is the
\* input list of the same length with the two elements of every consecutive
\* pair exchanged.
C6_BoundsSwappedEpsgForced ==
    (Returned /\ subset = "neon") =>
        /\ ret.val["metadata"].v["epsg"] = PyStr(<<Word("EPSG:4326")>>)
        /\ MetaIn.v["bounds"].t = "list" =>
              /\ ret.val["metadata"].v["bounds"].t = "list"
              /\ Len(ret.val["metadata"].v["bounds"].v) = Len(MetaIn.v["bounds"].v)
              /\ Len(MetaIn.v["bounds"].v) % 2 = 0
              /\ \A p \in 1..Len(MetaIn.v["bounds"].v) :
                    p % 2 = 1 =>
                        /\ ret.val["metadata"].v["bounds"].v[p] = MetaIn.v["bounds"].v[p + 1]
                        /\ ret.val["metadata"].v["bounds"].v[p + 1] = MetaIn.v["bounds"].v[p]

\* C6, witness: a neon record with four distinct coordinates [a,b,c,d] and
\* another epsg is returned with bounds [b,a,d,c].
C6_Witness ==
    /\ Returned
    /\ subset = "neon"
    /\ MetaIn.v["bounds"] = PyList(<<PyInt(11), PyInt(12), PyInt(13), PyInt(14)>>)
    /\ MetaIn.v["epsg"] = PyStr(<<Word("EPSG:32610")>>)
    /\ ret.val["metadata"].v["bounds"] = PyList(<<PyInt(12), PyInt(11), PyInt(14), PyInt(13)>>)

\* C7 as stated: whenever item_to_images returns for sentinel_1, the third
\* channel of every pixel of every revisit is channel0 / (channel1 + 0.01) * 256
\* of the input pixel, saturated at 255.
C7_RatioChannelSaturates ==
    (Returned /\ subset = "sentinel_1") =>
        \A r \in 1..Len(arg["10m"].v[2]) :
            \A y \in 1..Len(arg["10m"].v[2][r][1]) :
                \A x \in 1..Len(arg["10m"].v[2][r][1][y]) :
                    ret.val["10m"].v[r].v[y][x][3]
                        = Min(255, Ratio(arg["10m"].v[2][r][1][y][x], arg["10m"].v[2][r][2][y][x]))

\* C8: whenever item_to_images returns for sentinel_2, the "20m" field holds
\* one RGB image per revisit, of the revisit's width and height, whose pixel
\* (h, w) holds the input values of channels 0, 2 and 4 at (h, w), in that
\* order.
C8_Band20mSelectsChannels024 ==
    (Returned /\ subset = "sentinel_2") =>
        /\ Len(ret.val["20m"].v) = Len(arg["20m"].v[2])
        /\ \A r \in 1..Len(arg["20m"].v[2]) :
              /\ ret.val["20m"].v[r].mode = "RGB"
              /\ ret.val["20m"].v[r].size
                    = <<Len(arg["20m"].v[2][r][1][1]), Len(arg["20m"].v[2][r][1])>>
              /\ \A y \in 1..Len(arg["20m"].v[2][r][1]) :
                    \A x \in 1..Len(arg["20m"].v[2][r][1][y]) :
                        \A k \in 1..3 :
                            ret.val["20m"].v[r].v[y][x][k]
                                = arg["20m"].v[2][r][<<1, 3, 5>>[k]][y][x]

\* C8, witness: an optical record of two revisits is returned whose 20m band
\* holds different values in channels 1 and 2 of its first pixel.
C8_Witness ==
    /\ Returned
    /\ subset = "sentinel_2"
    /\ Len(arg["20m"].v[2]) = 2
    /\ arg["20m"].v[2][1][2][1][1] # arg["20m"].v[2][1][3][1][1]

\* A raster field whose nested lists differ in length.
Ragged(field) == field.t = "nested" /\ ~ShapeOf(field.v[2], field.v[1]).ok

\* A text that is no JSON value.
InvalidJson(x) == x.t = "str" /\ ~JsonLoads(x).ok

\* The fields of the record passed that are missing or malformed or hold
\* invalid JSON.
Offending ==
    {f \in SubsetFields(subset) : arg[f] = Absent \/ Ragged(arg[f])}
        \cup (IF InvalidJson(arg["metadata"]) THEN {"metadata"} ELSE {})
        \cup (IF subset = "sentinel_2" /\ MetaIn.t = "dict"
              THEN {k \in {"solarAngles", "tileGeometry", "viewIncidenceAngles"} :
                        /\ MetaIn.v[k].t = "list"
                        /\ \E i \in 1..Len(MetaIn.v[k].v) : InvalidJson(MetaIn.v[k].v[i])}
              ELSE {})

\* C9 as stated: a call on a record with a missing raster field, a ragged
\* array or invalid JSON in its metadata returns no record and ends in an error
\* that names an offending field.
C9_ErrorNamesOffendingField ==
    (Called /\ subset \in Subsets /\ Offending # {}) =>
        /\ ~ret.ok
        /\ ret.key \in Offending

\* The number a sequence of digit characters writes.
RECURSIVE NumberOf(_)
NumberOf(chars) ==
    IF Len(chars) = 0 THEN 0
    ELSE 10 * NumberOf(SubSeq(chars, 1, Len(chars) - 1))
            + (CHOOSE d \in 0..9 : DigitChars[d + 1] = chars[Len(chars)])

\* chars are width digits that write n.
IsNumeral(chars, n, width) ==
    /\ Len(chars) = width
    /\ \A i \in 1..Len(chars) : \E d \in 1..10 : DigitChars[d] = chars[i]
    /\ NumberOf(chars) = n

\* file reads {name}/{split}-{shard:05d}-of-{nshards:05d}.parquet.
IsShardPath(file, name, sp, shard, nshards) ==
    /\ Len(file) = 16
    /\ SubSeq(file, 1, 4) = <<name, "/", sp, "-">>
    /\ IsNumeral(SubSeq(file, 5, 9), shard, 5)
    /\ file[10] = "-of-"
    /\ IsNumeral(SubSeq(file, 11, 15), nshards, 5)
    /\ file[16] = ".parquet"

\* file reads {name}/sentinel_2-{shard//10}/{split}-{shard%10:05d}-of-00010.parquet
\* with the directory number written without leading zeros and the index in
\* the directory in 0..9.
IsOpticalPath(file, name, sp, shard) ==
    /\ Len(file) >= 12
    /\ SubSeq(file, 1, 2) = <<name, "/sentinel_2-">>
    /\ IsNumeral(SubSeq(file, 3, Len(file) - 9), shard \div 10, Len(file) - 11)
    /\ Len(file) > 12 => file[3] # "0"
    /\ SubSeq(file, Len(file) - 8, Len(file) - 6) = <<"/", sp, "-">>
    /\ \E index \in 0..9 :
          /\ index = shard % 10
          /\ IsNumeral(SubSeq(file, Len(file) - 5, Len(file) - 1), index, 5)
    /\ file[Len(file)] = "-of-00010.parquet"

\* C10: load_dataset called for a subset of the table with a list of shard
\* indices builds one data-file path per index, in order: for sentinel_2 the
\* two-level path with directory shard // 10 and an index in 0..9, for the
\* others the one-level path with the subset's shard count, under the subset's
\* name ("data" for neon); and different indices get different paths.
C10_OnePathPerShard ==
    (op = "load_dataset" /\ subset \in Subsets /\ shards.t = "list") =>
        /\ ret.ok
        /\ ret.val.split = split
        /\ ret.val.data_files.t = "list"
        /\ Len(ret.val.data_files.v) = Len(shards.v)
        /\ \A i \in 1..Len(shards.v) :
              IF subset = "sentinel_2"
              THEN IsOpticalPath(ret.val.data_files.v[i], "sentinel_2", split, shards.v[i])
              ELSE IsShardPath(ret.val.data_files.v[i],
                               IF subset = "neon" THEN "data" ELSE subset,
                               split, shards.v[i], sets[subset].shards)
        /\ \A i \in 1..Len(shards.v) : \A j \in 1..Len(shards.v) :
              shards.v[i] # shards.v[j] =>
                  ret.val.data_files.v[i] # ret.val.data_files.v[j]

\* C10, witness: the paths of two optical shards with one index in different
\* directories have been built.
C10_Witness ==
    /\ op = "load_dataset"
    /\ subset = "sentinel_2"
    /\ shards = PyList(<<2, 12>>)
    /\ ret.ok
    /\ Len(ret.val.data_files.v) = 2

\* The sum over bands lo..hi (counted from 1) of the values a revisit of the
\* record holds at pixel (y, x).
RECURSIVE GroupSum(_, _, _, _, _)
GroupSum(bands, y, x, lo, hi) ==
    IF lo > hi THEN 0
    ELSE IF lo = hi THEN bands[lo][y][x]
    ELSE GroupSum(bands, y, x, lo, (lo + hi) \div 2)
            + GroupSum(bands, y, x, (lo + hi) \div 2 + 1, hi)

\* avg is the integer part of the average of the bands from index first up to,
\* not including, index last (counted from 0) at pixel (y, x).
IsGroupAverage(avg, bands, y, x, first, last) ==
    /\ avg * (last - first) <= GroupSum(bands, y, x, first + 1, last)
    /\ GroupSum(bands, y, x, first + 1, last) < (avg + 1) * (last - first)

Sampling == line \in {"shard", "example", "done"}

\* The sum of a sequence of numbers.
RECURSIVE SumOf(_)
SumOf(seq) == IF Len(seq) = 0 THEN 0 ELSE Head(seq) + SumOf(Tail(seq))

\* C12: throughout the sampling loop, per_shard_samples is
\* max(1, num_images_to_download // number of loaded shards), no shard has
\* had more files saved from it than that, the files saved add up to
\* images_saved, and images_saved never exceeds num_images_to_download.
C12_ShardShareAndTotalBounded ==
    Sampling =>
        /\ Len(all_examples) >= 1
        /\ per_shard_samples
              = (IF num_images_to_download \div Len(all_examples) >= 1
                 THEN num_images_to_download \div Len(all_examples) ELSE 1)
        /\ Len(saved_files) = Len(all_examples)
        /\ \A i \in 1..Len(saved_files) :
              /\ saved_files[i] <= per_shard_samples
              /\ i > shard_id + 1 => saved_files[i] = 0
        /\ images_saved <= num_images_to_download
        /\ SumOf(saved_files) = images_saved

\* C12, witness: with a share of two or more and two or more shards loaded,
\* the first shard has given exactly its share, a later one has given some,
\* and the loop has saved all the images wanted.
C12_Witness ==
    /\ line = "done"
    /\ per_shard_samples >= 2
    /\ Len(all_examples) >= 2
    /\ saved_files[1] = per_shard_samples
    /\ saved_files[2] >= 1
    /\ images_saved = num_images_to_download

\* C13: the sampling phase is reached only with a loaded shard; the default
\* shard is tried only after every selected shard has failed to load, and is
\* then the only one; the script exits with status 1 only there, with no shard
\* loaded and per_shard_samples never computed; and the division of line 101
\* never has a zero divisor.
C13_SamplingHasLoadedShard ==
    /\ line # "crashed"
    /\ (line = "count" \/ Sampling) => Len(all_examples) >= 1
    /\ line = "fallback" => (all_examples = <<>> /\ shard_pos = num_shards_to_use + 1)
    /\ (\E i \in 1..Len(all_examples) : all_examples[i] = 0) => all_examples = <<0>>
    /\ exit_status = 1 <=> line = "exited"
    /\ line = "exited" =>
          /\ all_examples = <<>>
          /\ shard_pos = num_shards_to_use + 1
          /\ per_shard_samples = 0

\* C13, witness: every selected shard and the default shard have failed to
\* load and the script has exited with status 1.
C13_Witness ==
    /\ line = "exited"
    /\ exit_status = 1
    /\ all_examples = <<>>
====
